---- MODULE Spec2Model ----
(***************************************************************************)
(* Model of the physics core of arcade_starter (physics.py): one           *)
(* PhysicsEngine with its physics objects (the ball) and player            *)
(* controllers (the bar), driven by update ticks, key events and resets.   *)
(*                                                                         *)
(* Python floats are modelled as fixed-point integers:                     *)
(*   positions and lengths   1/PX pixel            (0.01 px)               *)
(*   linear velocities       1/VU pixel/second     (0.1 px/s)              *)
(*   ball angle              1/PX degree, ball angular velocity 1/VU deg/s *)
(*   bar angle               whole degrees, bar angular velocity deg/s     *)
(*   cos, sin, unit normals  1/TRIG                                        *)
(*   delta_time              1/DT_PER_SEC second   (0.1 s)                 *)
(* Every product is rounded to the nearest unit (RoundDiv), as a float     *)
(* operation rounds to the nearest representable value.                    *)
(***************************************************************************)
EXTENDS Integers, Sequences, FiniteSets, TLC

\* ------------------------------------------------------------------------
\* Program constants (constants.py), in source units.
BALL_RADIUS == 16
OBJECT_INITIAL_SPEED_X == 100
OBJECT_INITIAL_ANGULAR_SPEED == 500
GRAVITY == -980
\* OBJECT_ELASTICITY = 0.5 and FRICTION_COEFFICIENT = 0.1, in tenths
OBJECT_ELASTICITY == 5
FRICTION_COEFFICIENT == 1
BAR_WIDTH == 700
BAR_HEIGHT == 16
BAR_SPEED == 400
BAR_POSITION_Y == 200
WIDTH == 960
HEIGHT == 540

\* ------------------------------------------------------------------------
\* Fixed-point representation of float.
PX == 100
VU == 10
TRIG == 10000
DT_PER_SEC == 10
TENTHS == 10
\* math.pi, in hundredths
PI_HUNDREDTHS == 314

Abs(a) == IF a >= 0 THEN a ELSE -a

Max(a, b) == IF a >= b THEN a ELSE b

Min(a, b) == IF a <= b THEN a ELSE b

\* a / b rounded to the nearest integer (b > 0), halves away from zero
RoundDiv(a, b) ==
    IF a >= 0 THEN (a + (b \div 2)) \div b ELSE -(((-a) + (b \div 2)) \div b)

\* rate * delta_time, for a rate per second and delta_time in 1/DT_PER_SEC s
TimesDt(rate, delta_time) == RoundDiv(rate * delta_time, DT_PER_SEC)

\* velocity * delta_time as a displacement: velocity units to position units
Displacement(velocity, delta_time) ==
    RoundDiv(velocity * delta_time * PX, VU * DT_PER_SEC)

\* v * OBJECT_ELASTICITY
TimesElasticity(v) == RoundDiv(v * OBJECT_ELASTICITY, TENTHS)

\* FRICTION_COEFFICIENT * abs(GRAVITY) * delta_time, a velocity
FloorFrictionDelta(delta_time) ==
    RoundDiv(FRICTION_COEFFICIENT * Abs(GRAVITY) * VU * delta_time,
             TENTHS * DT_PER_SEC)

\* FRICTION_COEFFICIENT * velocity_y * delta_time, a velocity
WallFrictionDelta(velocity_y, delta_time) ==
    RoundDiv(FRICTION_COEFFICIENT * velocity_y * delta_time,
             TENTHS * DT_PER_SEC)

\* velocity * 360 / (radius * math.pi): a linear speed as degrees per second
SpinFromSpeed(velocity, radius) ==
    RoundDiv(velocity * 360 * 100, (radius \div PX) * PI_HUNDREDTHS)

\* ------------------------------------------------------------------------
\* PhysicsObject.update_physics

\* floor branch: friction on velocity_x
FloorFriction(velocity_x, delta_time) ==
    IF velocity_x > 0
    THEN velocity_x - FloorFrictionDelta(delta_time)
    ELSE velocity_x + FloorFrictionDelta(delta_time)

\* wall branch: friction on velocity_y
WallFriction(velocity_y, delta_time) ==
    IF velocity_y > 0
    THEN velocity_y - WallFrictionDelta(velocity_y, delta_time)
    ELSE velocity_y + WallFrictionDelta(velocity_y, delta_time)

\* velocity after acceleration is applied for the tick
Accelerate(velocity, acceleration, delta_time) ==
    velocity + TimesDt(acceleration, delta_time)

\* Integrate with the position advanced by the velocity the tick began with
IntegrateExplicit(o, delta_time) ==
    [vx |-> Accelerate(o.velocity_x, o.acceleration_x, delta_time),
     vy |-> Accelerate(o.velocity_y, o.acceleration_y, delta_time),
     angle |-> o.angle + Displacement(o.change_angle, delta_time),
     spin |-> o.change_angle,
     x |-> o.x + Displacement(o.velocity_x, delta_time),
     y |-> o.y + Displacement(o.velocity_y, delta_time),
     floor |-> FALSE, wall |-> FALSE]

\* lines 37-49: velocity, angle and the new position (new_x, new_y as x, y)
\* before any boundary
Integrate(o, delta_time) ==
    [vx |-> Accelerate(o.velocity_x, o.acceleration_x, delta_time),
     vy |-> Accelerate(o.velocity_y, o.acceleration_y, delta_time),
     angle |-> o.angle + Displacement(o.change_angle, delta_time),
     spin |-> o.change_angle,
     x |-> o.x + Displacement(
                   Accelerate(o.velocity_x, o.acceleration_x, delta_time),
                   delta_time),
     y |-> o.y + Displacement(
                   Accelerate(o.velocity_y, o.acceleration_y, delta_time),
                   delta_time),
     floor |-> FALSE, wall |-> FALSE]

FloorHit(new_y, half_h) == new_y <= half_h

\* FloorBounce without the elasticity
FloorBounceLossless(velocity_y) == -velocity_y

\* velocity_y after the floor bounce
FloorBounce(velocity_y) == TimesElasticity(-velocity_y)

\* lines 51-61: bounce off the floor
FloorPolicy(r, delta_time, half_w, half_h) ==
    IF FloorHit(r.y, half_h)
    THEN [r EXCEPT !.vy = FloorBounce(r.vy),
                   !.y = Max(half_h, r.y),
                   !.vx = FloorFriction(r.vx, delta_time),
                   !.spin = SpinFromSpeed(FloorFriction(r.vx, delta_time), half_w),
                   !.floor = TRUE]
    ELSE r

WallHit(new_x, half_w, world_width) ==
    new_x <= half_w \/ new_x >= world_width - half_w

Clamp(lo, hi, v) == Max(lo, Min(hi, v))

\* lines 63-73: bounce off the walls
WallPolicy(r, delta_time, half_w, world_width) ==
    IF WallHit(r.x, half_w, world_width)
    THEN [r EXCEPT !.vx = -r.vx,
                   !.x = Clamp(half_w, world_width - half_w, r.x),
                   !.vy = WallFriction(r.vy, delta_time),
                   !.spin = SpinFromSpeed(WallFriction(r.vy, delta_time), half_w),
                   !.wall = TRUE]
    ELSE r

\* the final clamp of center_y to the window bounds
ClampY(new_y, half_h, world_height) == Clamp(half_h, world_height - half_h, new_y)

\* lines 75-77: the object with the results stored, and what the call did
Store(o, r, in, fl, half_h, world_height) ==
    [obj |-> [o EXCEPT !.x = r.x,
                       !.y = ClampY(r.y, half_h, world_height),
                       !.velocity_x = r.vx,
                       !.velocity_y = r.vy,
                       !.angle = r.angle,
                       !.change_angle = r.spin],
     ev |-> [kind |-> "integrate", floor |-> r.floor, wall |-> r.wall,
             vx_in |-> in.vx, vy_in |-> in.vy,
             vx_floor |-> fl.vx, vy_floor |-> fl.vy,
             new_x |-> in.x, new_y |-> in.y]]

\* the work of update_physics on the integrated values `in`
Bounce(o, in, delta_time, world_width, world_height) ==
    LET fl == FloorPolicy(in, delta_time, o.width \div 2, o.height \div 2)
    IN  Store(o, WallPolicy(fl, delta_time, o.width \div 2, world_width),
              in, fl, o.height \div 2, world_height)

\* The object after update_physics (obj), and what the call did (ev).
update_physics(o, delta_time, world_width, world_height) ==
    Bounce(o, Integrate(o, delta_time), delta_time, world_width, world_height)

\* ------------------------------------------------------------------------
\* PlayerController.update_movement
update_movement(c, delta_time, keys) ==
    LET spin == ((IF "clockwise" \in keys THEN 1 ELSE 0)
                 - (IF "counter-clockwise" \in keys THEN 1 ELSE 0))
                * c.angular_speed
    IN  [c EXCEPT !.change_angle = spin,
                  !.angle = c.angle + TimesDt(spin, delta_time)]

\* ------------------------------------------------------------------------
\* Trigonometry and square root (math.cos, math.sin, math.sqrt).

\* cos of 0, 10, ..., 90 degrees, in 1/TRIG
CosTable == <<10000, 9848, 9397, 8660, 7660, 6428, 5000, 3420, 1736, 0>>

\* math.cos(math.radians(deg)) for deg a multiple of 10
Cos(deg) ==
    LET m == deg % 360
    IN  IF m <= 90 THEN CosTable[(m \div 10) + 1]
        ELSE IF m <= 180 THEN -CosTable[((180 - m) \div 10) + 1]
        ELSE IF m <= 270 THEN -CosTable[((m - 180) \div 10) + 1]
        ELSE CosTable[((360 - m) \div 10) + 1]

\* math.sin(math.radians(deg)) for deg a multiple of 10
Sin(deg) == Cos(deg - 90)

RECURSIVE SqrtSearch(_, _, _)
\* the largest s in lo..hi with s * s <= q
SqrtSearch(q, lo, hi) ==
    IF lo >= hi THEN lo
    ELSE LET mid == (lo + hi + 1) \div 2
         IN  IF mid * mid <= q THEN SqrtSearch(q, mid, hi)
             ELSE SqrtSearch(q, lo, mid - 1)

\* math.sqrt(q), rounded to the nearest integer (0 <= q < 2^31)
Sqrt(q) ==
    LET s == SqrtSearch(q, 0, 46340)
    IN  IF q - s * s > s THEN s + 1 ELSE s

\* sqrt(nx^2 + ny^2) in 1/(PX*100) pixel, for |nx|, |ny| below 2^15
FineLength(nx, ny) ==
    LET q == nx * nx + ny * ny
    IN  IF q <= 200000 THEN Sqrt(q * 10000) ELSE Sqrt(q) * 100

\* ------------------------------------------------------------------------
\* Circle against rotated rectangle (handle_collision, first half).

\* the vector from the bar centre to the circle centre in the bar's local
\* coordinates
Local(o, c) ==
    [x |-> RoundDiv((o.x - c.x) * Cos(c.angle) - (o.y - c.y) * Sin(c.angle), TRIG),
     y |-> RoundDiv((o.x - c.x) * Sin(c.angle) + (o.y - c.y) * Cos(c.angle), TRIG)]

\* the collision normal before normalisation: local minus the closest point
\* of the rectangle
RawNormal(l, c) ==
    [x |-> l.x - Clamp(-(c.width \div 2), c.width \div 2, l.x),
     y |-> l.y - Clamp(-(c.height \div 2), c.height \div 2, l.y)]

\* whether the circle centre lies in the rectangle (normal_length = 0)
CentreInside(raw) == raw.x = 0 /\ raw.y = 0

\* a vector of length len (1/(PX*100) pixel) scaled to a unit vector, 1/TRIG
Normalise(raw, len) ==
    [x |-> RoundDiv(raw.x * 100 * TRIG, len),
     y |-> RoundDiv(raw.y * 100 * TRIG, len)]

\* the axis normal used when the circle centre is inside the rectangle
FallbackNormal(l, c) ==
    IF Abs(l.x) * (c.height \div 2) > Abs(l.y) * (c.width \div 2)
    THEN [x |-> IF l.x > 0 THEN TRIG ELSE -TRIG, y |-> 0]
    ELSE [x |-> 0, y |-> IF l.y > 0 THEN TRIG ELSE -TRIG]

\* the unit normal in local space, in 1/TRIG
LocalNormal(l, raw, c) ==
    IF ~CentreInside(raw)
    THEN Normalise(raw, FineLength(raw.x, raw.y))
    ELSE FallbackNormal(l, c)

\* a local vector back in world coordinates
ToWorld(n, c) ==
    [x |-> RoundDiv(n.x * Cos(c.angle) + n.y * Sin(c.angle), TRIG),
     y |-> RoundDiv(-n.x * Sin(c.angle) + n.y * Cos(c.angle), TRIG)]

\* circle_radius - normal_length, in 1/(PX*100) pixel
PenetrationDepth(circle_radius, raw) ==
    circle_radius * 100 - FineLength(raw.x, raw.y)

\* the circle centre is nearer than r to the closest point of the rectangle
Nearer(raw, r) ==
    /\ Abs(raw.x) < r
    /\ Abs(raw.y) < r
    /\ raw.x * raw.x + raw.y * raw.y < r * r

\* sprite.collides_with_sprite: the circle and the rotated rectangle intersect
collides_with_sprite(o, c) == Nearer(RawNormal(Local(o, c), c), o.width \div 2)

\* ------------------------------------------------------------------------
\* PhysicsEngine.handle_collision (velocity response and separation).

\* the engine's collision_contact attribute; __init__ does not assign it
Unset == "unset"

\* ElasticityApplies without the guard
ElasticityAlwaysApplies(contact) == TRUE

\* whether the guard `self.collision_contact == False` lets elasticity apply
ElasticityApplies(contact) == contact = "False"

\* v_new = v_old - 2 * (v_old . n) * n, one component
Reflect(v, vel_normal, n) == v - RoundDiv(2 * vel_normal * n, TRIG)

\* position pushed out along the world normal by the penetration depth
Separate(p, n, depth) ==
    IF depth > 0 THEN p + RoundDiv(n * depth, TRIG * 100) ELSE p

\* lines 200-211: the velocity response for vel_normal = dot / TRIG; the
\* object as it is when line 209 reads collision_contact
Respond(o, n, wn, dot, contact) ==
    IF dot < 0
    THEN [o EXCEPT
            !.velocity_x =
                IF ElasticityApplies(contact)
                THEN TimesElasticity(Reflect(o.velocity_x, RoundDiv(dot, TRIG), wn.x))
                ELSE Reflect(o.velocity_x, RoundDiv(dot, TRIG), wn.x),
            !.velocity_y =
                IF ElasticityApplies(contact)
                THEN TimesElasticity(Reflect(o.velocity_y, RoundDiv(dot, TRIG), wn.y))
                ELSE Reflect(o.velocity_y, RoundDiv(dot, TRIG), wn.y),
            !.change_angle =
                SpinFromSpeed(RoundDiv(o.velocity_x * n.y - o.velocity_y * n.x, TRIG),
                              o.width \div 2)]
    ELSE o

\* lines 213-218: separate the objects, unless line 209 raised
Resolve(o1, wn, depth, raised, ev) ==
    [obj |-> IF raised THEN o1
             ELSE [o1 EXCEPT !.x = Separate(o1.x, wn.x, depth),
                             !.y = Separate(o1.y, wn.y, depth)],
     raised |-> raised,
     ev |-> [ev EXCEPT !.raised = raised]]

\* handle_collision for the local normal n and the world normal wn
Collide(o, raw, n, wn, contact) ==
    Resolve(Respond(o, n, wn, o.velocity_x * wn.x + o.velocity_y * wn.y, contact),
            wn,
            PenetrationDepth(o.width \div 2, raw),
            o.velocity_x * wn.x + o.velocity_y * wn.y < 0 /\ contact = Unset,
            [kind |-> "collide",
             approaching |-> o.velocity_x * wn.x + o.velocity_y * wn.y < 0,
             scaled |-> /\ o.velocity_x * wn.x + o.velocity_y * wn.y < 0
                        /\ ElasticityApplies(contact),
             raised |-> FALSE,
             inside |-> CentreInside(raw),
             normal |-> wn])

\* handle_collision for the circle centre l in local coordinates
CollideAt(o, c, l, raw, contact) ==
    LET n == LocalNormal(l, raw, c)
    IN  Collide(o, raw, n, ToWorld(n, c), contact)

\* The object after handle_collision (obj), what the call did (ev), and
\* whether it raised AttributeError reading the unassigned collision_contact.
handle_collision(o, c, contact) ==
    LET l == Local(o, c)
    IN  CollideAt(o, c, l, RawNormal(l, c), contact)

\* ------------------------------------------------------------------------
\* PhysicsEngine.update

\* the two loops that clear every update_flag
ClearFlags(seq) == [i \in DOMAIN seq |-> [seq[i] EXCEPT !.update_flag = FALSE]]

\* lines 236-239: the branch of the loop body taken on overlap, h being what
\* handle_collision returned; when it raised, update ends there
OnOverlap(st, i, j, h) ==
    IF h.raised
    THEN [st EXCEPT !.objs[i] = h.obj,
                    !.crashed = TRUE,
                    !.events = Append(@, [obj |-> i, bar |-> j] @@ h.ev)]
    ELSE [st EXCEPT !.objs[i] = [h.obj EXCEPT !.update_flag = TRUE],
                    !.bars[j] = [@ EXCEPT !.update_flag = TRUE],
                    !.contact = "True",
                    !.events = Append(@, [obj |-> i, bar |-> j] @@ h.ev)]

\* lines 241-247: the branch taken without overlap, u being what
\* update_physics returns and m what update_movement returns
OnSeparate(st, i, j, u, m) ==
    [st EXCEPT
       !.objs[i] = IF @.update_flag = FALSE
                   THEN [u.obj EXCEPT !.update_flag = TRUE] ELSE @,
       !.bars[j] = IF @.update_flag = FALSE
                   THEN [m EXCEPT !.update_flag = TRUE] ELSE @,
       !.contact = "False",
       !.events = @ \o (IF st.objs[i].update_flag = FALSE
                        THEN <<[obj |-> i, bar |-> j] @@ u.ev>> ELSE <<>>)
                    \o (IF st.bars[j].update_flag = FALSE
                        THEN <<[obj |-> i, bar |-> j] @@ [kind |-> "move"]>>
                        ELSE <<>>)]

\* the body of the nested loop for physics object i and controller j
PairStep(st, i, j, delta_time, keys, world_width, world_height) ==
    IF collides_with_sprite(st.objs[i], st.bars[j])
    THEN OnOverlap(st, i, j, handle_collision(st.objs[i], st.bars[j], st.contact))
    ELSE OnSeparate(st, i, j,
                    update_physics(st.objs[i], delta_time, world_width, world_height),
                    update_movement(st.bars[j], delta_time, keys))

RECURSIVE PairLoop(_, _, _, _, _, _)
\* the nested loop over (physics object, controller), pair k onwards; an
\* exception ends it
PairLoop(st, k, delta_time, keys, world_width, world_height) ==
    IF st.crashed \/ k >= Len(st.objs) * Len(st.bars) THEN st
    ELSE PairLoop(PairStep(st, (k \div Len(st.bars)) + 1, (k % Len(st.bars)) + 1,
                           delta_time, keys, world_width, world_height),
                  k + 1, delta_time, keys, world_width, world_height)

\* the engine after update(delta_time, keys, world_width, world_height)
update(os, cs, contact, delta_time, keys, world_width, world_height) ==
    PairLoop([objs |-> ClearFlags(os), bars |-> ClearFlags(cs),
              contact |-> contact, crashed |-> FALSE, events |-> <<>>],
             0, delta_time, keys, world_width, world_height)

\* ------------------------------------------------------------------------
\* PhysicsEngine.reset_physics_object / reset_player_controller

\* reset_physics_object that leaves the angular velocity as it is
reset_physics_object_keeping_spin(os, index, x, y, velocity_x, velocity_y) ==
    IF 0 <= index /\ index < Len(os)
    THEN [os EXCEPT ![index + 1] =
             [@ EXCEPT !.x = x, !.y = y,
                       !.velocity_x = velocity_x,
                       !.velocity_y = velocity_y]]
    ELSE os

reset_physics_object(os, index, x, y, velocity_x, velocity_y) ==
    IF 0 <= index /\ index < Len(os)
    THEN [os EXCEPT ![index + 1] =
             [@ EXCEPT !.x = x, !.y = y,
                       !.velocity_x = velocity_x,
                       !.velocity_y = velocity_y,
                       !.change_angle = OBJECT_INITIAL_ANGULAR_SPEED * VU]]
    ELSE os

reset_player_controller(cs, index, x, y, angle) ==
    IF 0 <= index /\ index < Len(cs)
    THEN [cs EXCEPT ![index + 1] = [@ EXCEPT !.x = x, !.y = y, !.angle = angle]]
    ELSE cs

\* ------------------------------------------------------------------------
\* Bounds of the model.

\* calls of the engine (update, reset) per run
MaxCalls == 3

\* player controllers registered with the engine, at most
MaxControllers == 2

\* delta_time values passed to update, in 1/DT_PER_SEC second
DtValues == {-1, 0, 1}

\* the intents the bar reads from the held-intent set
Intents == {"clockwise", "counter-clockwise"}

\* Placements (pixels, pixels/second) the ball is constructed at or reset to:
\* the default construction, the free-fall scenario, one pixel into the top
\* edge of the bar and falling, a fall that lands inside the bar below its
\* centre line, inside the bar below its centre line and falling, at rest on
\* the floor, the floor/wall corner, rising under the ceiling, falling along
\* the left wall.
Placements ==
    { [x |-> WIDTH \div 2, y |-> HEIGHT \div 2,
       velocity_x |-> OBJECT_INITIAL_SPEED_X, velocity_y |-> 0],
      [x |-> 480, y |-> 300, velocity_x |-> 0, velocity_y |-> -200],
      [x |-> 480, y |-> 223, velocity_x |-> 0, velocity_y |-> -100],
      [x |-> 480, y |-> 240, velocity_x |-> 0, velocity_y |-> -310],
      [x |-> 480, y |-> 199, velocity_x |-> 0, velocity_y |-> -100],
      [x |-> 496, y |-> 16, velocity_x |-> 0, velocity_y |-> 0],
      [x |-> 20, y |-> 20, velocity_x |-> -100, velocity_y |-> -100],
      [x |-> 480, y |-> 520, velocity_x |-> 0, velocity_y |-> 200],
      [x |-> 20, y |-> 300, velocity_x |-> -100, velocity_y |-> -100] }

\* ------------------------------------------------------------------------
\* State.

VARIABLES
    objs,               \* PhysicsEngine.physics_objects
    bars,               \* PhysicsEngine.player_controllers
    collision_contact,  \* PhysicsEngine.collision_contact: Unset, "True", "False"
    keys,               \* the held-intent set: the keys passed to update,
                        \* App.keys in the host application
    crashed,            \* an update raised; the program has ended
    calls,              \* update and reset calls so far
    op,                 \* the operation that led to this state
    last,               \* when op = "tick": that update's inputs, the state
                        \* before it and its events; its kind stays until the
                        \* next update; when op = "reset": the state before it
    current_state,      \* App.current_state
    selected_menu_item, \* App.selected_menu_item
    object,             \* App.object (sprite) and App.object_velocity_y
    fullscreen,         \* App.fullscreen
    exited              \* arcade.exit() was called

\* the state of the host application but for its keys
app == <<current_state, selected_menu_item, object, fullscreen, exited>>

vars == <<objs, bars, collision_contact, keys, crashed, calls, op, last, app>>

\* main.py: game states, speed and gravity of the host application
MENU_STATE == 0

SIMULATION_STATE == 1

OPTIONS_STATE == 2

MOVE_SPEED == 300

gravity == -980

\* the host application but for its keys, as App.__init__ leaves it
AppConstructed ==
    /\ current_state = MENU_STATE
    /\ selected_menu_item = 0
    /\ object = [center_x |-> (WIDTH \div 2) * PX, center_y |-> (HEIGHT \div 2) * PX,
                 width |-> 32 * PX, height |-> 32 * PX, velocity_y |-> 0]
    /\ fullscreen = FALSE
    /\ exited = FALSE

world_width == WIDTH * PX

world_height == HEIGHT * PX

\* PhysicsObject.__init__ on a sprite of diameter 2 * BALL_RADIUS at placement p
PhysicsObject(p) ==
    [x |-> p.x * PX, y |-> p.y * PX,
     width |-> 2 * BALL_RADIUS * PX, height |-> 2 * BALL_RADIUS * PX,
     velocity_x |-> p.velocity_x * VU, velocity_y |-> p.velocity_y * VU,
     acceleration_x |-> 0, acceleration_y |-> GRAVITY * VU,
     angle |-> 0, change_angle |-> OBJECT_INITIAL_ANGULAR_SPEED * VU,
     update_flag |-> FALSE]

\* PlayerController.__init__ on the bar sprite at its resting position
PlayerController ==
    [x |-> (WIDTH \div 2) * PX, y |-> BAR_POSITION_Y * PX,
     width |-> BAR_WIDTH * PX, height |-> BAR_HEIGHT * PX,
     angle |-> 0, change_angle |-> 0, angular_speed |-> BAR_SPEED,
     update_flag |-> FALSE]

\* the spawn point of a reset: centred, touching the top of the playfield
SpawnX == (WIDTH \div 2) * PX

SpawnY == HEIGHT * PX - BALL_RADIUS * PX

\* the record of `last` in a state no update led to; kind is the kind of the
\* most recent update ("none", "free" or "overlap")
NoUpdate(kind) ==
    [dt |-> 0, keys |-> {}, pre_objs |-> <<>>, pre_bars |-> <<>>,
     pre_contact |-> Unset, prev_kind |-> "none", kind |-> kind,
     events |-> <<>>]

Init ==
    /\ \E p \in Placements : objs = <<PhysicsObject(p)>>
    /\ bars = <<PlayerController>>
    /\ collision_contact = Unset
    /\ keys = {}
    /\ crashed = FALSE
    /\ calls = 0
    /\ op = "init"
    /\ last = NoUpdate("none")
    /\ AppConstructed

\* whether the events of an update include a collision
HasCollision(events) == \E n \in DOMAIN events : events[n].kind = "collide"

\* the engine and the record of the update once update returned st
Updated(st, delta_time) ==
    /\ objs' = st.objs
    /\ bars' = st.bars
    /\ collision_contact' = st.contact
    /\ crashed' = st.crashed
    /\ last' = [dt |-> delta_time, keys |-> keys,
                pre_objs |-> objs, pre_bars |-> bars,
                pre_contact |-> collision_contact,
                prev_kind |-> last.kind,
                kind |-> IF HasCollision(st.events) THEN "overlap" ELSE "free",
                events |-> st.events]

\* the host calls engine.update(delta_time, keys, width, height)
Tick ==
    /\ ~crashed
    /\ calls < MaxCalls
    /\ \E delta_time \in DtValues :
         Updated(update(objs, bars, collision_contact, delta_time, keys,
                        world_width, world_height), delta_time)
    /\ calls' = calls + 1
    /\ op' = "tick"
    /\ UNCHANGED <<keys, app>>

\* a control key goes down: its intent joins the held-intent set
KeyPress ==
    /\ ~crashed
    /\ \E k \in Intents : keys' = keys \cup {k}
    /\ op' = "key"
    /\ last' = NoUpdate(last.kind)
    /\ UNCHANGED <<objs, bars, collision_contact, crashed, calls, app>>

\* a control key goes up: its intent leaves the held-intent set
KeyRelease ==
    /\ ~crashed
    /\ \E k \in Intents : keys' = keys \ {k}
    /\ op' = "key"
    /\ last' = NoUpdate(last.kind)
    /\ UNCHANGED <<objs, bars, collision_contact, crashed, calls, app>>

\* the host's reset: ball to the spawn point, bar to rest, intents cleared
Reset ==
    /\ ~crashed
    /\ calls < MaxCalls
    /\ calls' = calls + 1
    /\ objs' = reset_physics_object(objs, 0, SpawnX, SpawnY,
                                    OBJECT_INITIAL_SPEED_X * VU, 0)
    /\ bars' = reset_player_controller(bars, 0, (WIDTH \div 2) * PX,
                                       BAR_POSITION_Y * PX, 0)
    /\ keys' = {}
    /\ op' = "reset"
    /\ last' = [NoUpdate(last.kind) EXCEPT !.keys = keys, !.pre_objs = objs,
                                           !.pre_bars = bars]
    /\ UNCHANGED <<collision_contact, crashed, app>>

\* engine.reset_physics_object(0, x, y, velocity_x, velocity_y) on its own
ResetPhysicsObject ==
    /\ ~crashed
    /\ calls < MaxCalls
    /\ calls' = calls + 1
    /\ \E p \in Placements :
         objs' = reset_physics_object(objs, 0, p.x * PX, p.y * PX,
                                      p.velocity_x * VU, p.velocity_y * VU)
    /\ op' = "reset_object"
    /\ last' = NoUpdate(last.kind)
    /\ UNCHANGED <<bars, collision_contact, keys, crashed, app>>

Next == Tick \/ KeyPress \/ KeyRelease \/ Reset \/ ResetPhysicsObject

Spec == Init /\ [][Next]_vars

\* ------------------------------------------------------------------------
\* The engine with any number of player controllers.

\* the k-th registered controller: the first at the resting position, each
\* further one 62 pixels above the one before
ControllerSlot(k) ==
    [PlayerController EXCEPT !.y = (BAR_POSITION_Y + (k - 1) * 62) * PX]

\* add_player_controller called n times
Controllers(n) == [k \in 1 .. n |-> ControllerSlot(k)]

InitControllers ==
    /\ \E p \in Placements : objs = <<PhysicsObject(p)>>
    /\ \E n \in 0 .. MaxControllers : bars = Controllers(n)
    /\ collision_contact = Unset
    /\ keys = {}
    /\ crashed = FALSE
    /\ calls = 0
    /\ op = "init"
    /\ last = NoUpdate("none")
    /\ AppConstructed

SpecControllers == InitControllers /\ [][Next]_vars

\* ------------------------------------------------------------------------
\* The host application (main.py, class App).

\* the key symbols an event carries (arcade.key), OTHER being any other key
Symbols ==
    {"UP", "DOWN", "LEFT", "RIGHT", "W", "A", "S", "D",
     "ENTER", "ESCAPE", "F11", "OTHER"}

\* the application as a record
App ==
    [current_state |-> current_state, selected_menu_item |-> selected_menu_item,
     keys |-> keys, object |-> object, fullscreen |-> fullscreen,
     exited |-> exited]

\* lines 125-134: ENTER in the menu
MenuEnter(a) ==
    IF a.selected_menu_item = 0
    THEN [a EXCEPT !.current_state = SIMULATION_STATE,
                   !.object.center_x = (WIDTH \div 2) * PX,
                   !.object.center_y = (HEIGHT \div 2) * PX,
                   !.object.velocity_y = 0]
    ELSE IF a.selected_menu_item = 1
    THEN [a EXCEPT !.current_state = OPTIONS_STATE]
    ELSE IF a.selected_menu_item = 2
    THEN [a EXCEPT !.exited = TRUE]
    ELSE a

handle_menu_keys(a, symbol) ==
    IF symbol = "UP"
    THEN [a EXCEPT !.selected_menu_item = (@ - 1) % 3]
    ELSE IF symbol = "DOWN"
    THEN [a EXCEPT !.selected_menu_item = (@ + 1) % 3]
    ELSE IF symbol = "ENTER" THEN MenuEnter(a)
    ELSE IF symbol = "ESCAPE" THEN [a EXCEPT !.exited = TRUE]
    ELSE a

\* handle_simulation_keys that leaves the held keys on ESC
handle_simulation_keys_keeping_keys(a, symbol) ==
    IF symbol = "ESCAPE"
    THEN [a EXCEPT !.current_state = MENU_STATE]
    ELSE IF symbol \in {"LEFT", "A"} THEN [a EXCEPT !.keys = @ \cup {"left"}]
    ELSE IF symbol \in {"RIGHT", "D"} THEN [a EXCEPT !.keys = @ \cup {"right"}]
    ELSE IF symbol \in {"UP", "W"} THEN [a EXCEPT !.keys = @ \cup {"up"}]
    ELSE IF symbol \in {"DOWN", "S"} THEN [a EXCEPT !.keys = @ \cup {"down"}]
    ELSE IF symbol = "F11" THEN [a EXCEPT !.fullscreen = ~@]
    ELSE a

handle_simulation_keys(a, symbol) ==
    IF symbol = "ESCAPE"
    THEN [a EXCEPT !.current_state = MENU_STATE, !.keys = {}]
    ELSE IF symbol \in {"LEFT", "A"} THEN [a EXCEPT !.keys = @ \cup {"left"}]
    ELSE IF symbol \in {"RIGHT", "D"} THEN [a EXCEPT !.keys = @ \cup {"right"}]
    ELSE IF symbol \in {"UP", "W"} THEN [a EXCEPT !.keys = @ \cup {"up"}]
    ELSE IF symbol \in {"DOWN", "S"} THEN [a EXCEPT !.keys = @ \cup {"down"}]
    ELSE IF symbol = "F11" THEN [a EXCEPT !.fullscreen = ~@]
    ELSE a

handle_options_keys(a, symbol) ==
    IF symbol = "ESCAPE" THEN [a EXCEPT !.current_state = MENU_STATE] ELSE a

on_key_press(a, symbol) ==
    IF a.current_state = MENU_STATE THEN handle_menu_keys(a, symbol)
    ELSE IF a.current_state = SIMULATION_STATE
    THEN handle_simulation_keys(a, symbol)
    ELSE IF a.current_state = OPTIONS_STATE THEN handle_options_keys(a, symbol)
    ELSE a

on_key_release(a, symbol) ==
    IF symbol \in {"LEFT", "A"} THEN [a EXCEPT !.keys = @ \ {"left"}]
    ELSE IF symbol \in {"RIGHT", "D"} THEN [a EXCEPT !.keys = @ \ {"right"}]
    ELSE IF symbol \in {"UP", "W"} THEN [a EXCEPT !.keys = @ \ {"up"}]
    ELSE IF symbol \in {"DOWN", "S"} THEN [a EXCEPT !.keys = @ \ {"down"}]
    ELSE a

\* lines 96-109: the object moved by dx and by the velocity vy, clamped
Moved(o, dx, vy, delta_time) ==
    [o EXCEPT !.velocity_y = vy,
              !.center_x = Clamp(o.width \div 2, WIDTH * PX - o.width \div 2,
                                 o.center_x + dx),
              !.center_y = Clamp(o.height \div 2, HEIGHT * PX - o.height \div 2,
                                 o.center_y + Displacement(vy, delta_time))]

on_update(a, delta_time) ==
    IF a.current_state = SIMULATION_STATE
    THEN [a EXCEPT !.object =
            Moved(@,
                  Displacement(((IF "right" \in a.keys THEN 1 ELSE 0)
                                - (IF "left" \in a.keys THEN 1 ELSE 0))
                               * MOVE_SPEED * VU, delta_time),
                  @.velocity_y + TimesDt(gravity * VU, delta_time),
                  delta_time)]
    ELSE a

\* the application becomes a
Becomes(a) ==
    /\ current_state' = a.current_state
    /\ selected_menu_item' = a.selected_menu_item
    /\ keys' = a.keys
    /\ object' = a.object
    /\ fullscreen' = a.fullscreen
    /\ exited' = a.exited

\* the application alone: no engine is constructed
InitApp ==
    /\ AppConstructed
    /\ keys = {}
    /\ objs = <<>>
    /\ bars = <<>>
    /\ collision_contact = Unset
    /\ crashed = FALSE
    /\ calls = 0
    /\ op = "init"
    /\ last = NoUpdate("none")

\* a key goes down; last.keys keeps the keys held before
OnKeyPress ==
    /\ ~exited
    /\ \E symbol \in Symbols : Becomes(on_key_press(App, symbol))
    /\ op' = "on_key_press"
    /\ last' = [NoUpdate("none") EXCEPT !.keys = keys]
    /\ UNCHANGED <<objs, bars, collision_contact, crashed, calls>>

\* a key goes up
OnKeyRelease ==
    /\ ~exited
    /\ \E symbol \in Symbols : Becomes(on_key_release(App, symbol))
    /\ op' = "on_key_release"
    /\ last' = [NoUpdate("none") EXCEPT !.keys = keys]
    /\ UNCHANGED <<objs, bars, collision_contact, crashed, calls>>

\* a frame: arcade calls on_update with the time since the last frame
OnUpdate ==
    /\ ~exited
    /\ calls < MaxCalls
    /\ calls' = calls + 1
    /\ \E delta_time \in DtValues : Becomes(on_update(App, delta_time))
    /\ op' = "on_update"
    /\ last' = [NoUpdate("none") EXCEPT !.keys = keys]
    /\ UNCHANGED <<objs, bars, collision_contact, crashed>>

NextApp == OnKeyPress \/ OnKeyRelease \/ OnUpdate

SpecApp == InitApp /\ [][NextApp]_vars

\* ------------------------------------------------------------------------
\* Observations of the most recent update (one ball, one bar).

\* the ball and the bar now, and before the most recent update
Ball == objs[1]

Bar == bars[1]

BallBefore == last.pre_objs[1]

BarBefore == last.pre_bars[1]

\* the update ran update_physics on the ball / handle_collision on the ball
Integrated == op = "tick" /\ \E n \in DOMAIN last.events : last.events[n].kind = "integrate"

Collided == op = "tick" /\ \E n \in DOMAIN last.events : last.events[n].kind = "collide"

\* the event of that call
IntegrateEvent == last.events[CHOOSE n \in DOMAIN last.events : last.events[n].kind = "integrate"]

CollideEvent == last.events[CHOOSE n \in DOMAIN last.events : last.events[n].kind = "collide"]

\* the ball centre is at least a radius from every edge of the playfield
InBounds(o) ==
    /\ o.width \div 2 <= o.x
    /\ o.x <= world_width - o.width \div 2
    /\ o.height \div 2 <= o.y
    /\ o.y <= world_height - o.height \div 2

\* ------------------------------------------------------------------------
\* C1: after every update tick, whether it integrated the ball or resolved a
\* bar collision, the ball centre is within [radius, width - radius] x
\* [radius, height - radius].
C1_InBoundsAfterUpdate == op = "tick" => InBounds(Ball)

\* ------------------------------------------------------------------------
\* C2: whenever the floor branch of update_physics runs, its friction
\* adjustment neither increases |velocity_x| nor changes the sign of
\* velocity_x, whatever velocity_x was (zero and tiny values included).
C2_FloorFrictionMonotone ==
    (Integrated /\ IntegrateEvent.floor /\ last.dt > 0)
        => /\ Abs(IntegrateEvent.vx_floor) <= Abs(IntegrateEvent.vx_in)
           /\ IntegrateEvent.vx_floor * IntegrateEvent.vx_in >= 0

\* the ball centre is at least `least` (1/PX pixel) from the closest point of
\* the bar rectangle
AtLeastFromBar(o, c, least) == ~Nearer(RawNormal(Local(o, c), c), least)

\* C3: after handle_collision returns, for every overlapping position (the
\* ball centre inside the bar rectangle included), the ball centre is at
\* least radius - 1e-3 from the closest point of the bar rectangle (the
\* tolerance widened to the model's resolution of positions, 1/PX pixel).
C3_SeparatedAfterCollision ==
    (Collided /\ ~CollideEvent.raised)
        => AtLeastFromBar(Ball, Bar, Ball.width \div 2 - 1)

\* ------------------------------------------------------------------------
\* position, velocity, angle and angular velocity of an object or controller
Motion(o) ==
    IF "velocity_x" \in DOMAIN o
    THEN <<o.x, o.y, o.velocity_x, o.velocity_y, o.angle, o.change_angle>>
    ELSE <<o.angle, o.change_angle>>

\* C4: an update call with dt <= 0 is a no-op: position, velocity, angle and
\* angular velocity of the ball, angle and angular velocity of the bar, and
\* the contact flag are unchanged, in every state.
C4_NonPositiveDtIsNoOp ==
    (op = "tick" /\ last.dt <= 0)
        => /\ Motion(Ball) = Motion(BallBefore)
           /\ Motion(Bar) = Motion(BarBefore)
           /\ collision_contact = last.pre_contact

\* ------------------------------------------------------------------------
\* v . n for the world normal of a collision, in 1/(VU * TRIG)
VelNormal(o, wn) == o.velocity_x * wn.x + o.velocity_y * wn.y

\* the velocity of o reflected about the world normal wn
Reflected(o, wn) ==
    <<Reflect(o.velocity_x, RoundDiv(VelNormal(o, wn), TRIG), wn.x),
      Reflect(o.velocity_y, RoundDiv(VelNormal(o, wn), TRIG), wn.y)>>

\* a velocity scaled by OBJECT_ELASTICITY
Scaled(v) == <<TimesElasticity(v[1]), TimesElasticity(v[2])>>

Velocity(o) == <<o.velocity_x, o.velocity_y>>

\* the ball moved towards the bar when the collision of this tick was handled
Approaching == VelNormal(BallBefore, CollideEvent.normal) < 0

\* C5 as stated: on an overlap tick whose previous tick was an overlap tick
\* the velocity is reflected without being scaled, and on the first overlap
\* tick after a non-overlap tick the elasticity scaling is applied.
C5_ScaledOncePerRun ==
    Collided =>
        /\ last.prev_kind = "overlap"
             => Velocity(Ball) = Reflected(BallBefore, CollideEvent.normal)
        /\ last.prev_kind = "free"
             => Velocity(Ball) \in
                  { Scaled(Reflected(BallBefore, CollideEvent.normal)),
                    Scaled(Velocity(BallBefore)) }

\* C5: over the update ticks, the OBJECT_ELASTICITY scaling is applied only on
\* an overlap tick that follows a non-overlap tick and in which the ball moves
\* towards the bar: there the reflected velocity is scaled; on an overlap tick
\* with no non-overlap tick just before it an approaching ball is reflected
\* without scaling; a ball that is not approaching keeps its velocity.
C5_ScaledOnceWhenApproaching ==
    Collided =>
        /\ ~Approaching => Velocity(Ball) = Velocity(BallBefore)
        /\ (Approaching /\ last.prev_kind = "free")
             => Velocity(Ball) = Scaled(Reflected(BallBefore, CollideEvent.normal))
        /\ (Approaching /\ last.prev_kind # "free")
             => Velocity(Ball) = Reflected(BallBefore, CollideEvent.normal)

\* an approaching ball on an overlap tick whose previous tick was an overlap
\* tick, reflected
C5_ConsecutiveOverlapReached ==
    /\ Collided
    /\ last.prev_kind = "overlap"
    /\ Approaching
    /\ Velocity(Ball) # Velocity(BallBefore)

\* ------------------------------------------------------------------------
\* (clockwise - counter-clockwise) * angular_speed for the held intents
IntendedSpin(c, held) ==
    ((IF "clockwise" \in held THEN 1 ELSE 0)
     - (IF "counter-clockwise" \in held THEN 1 ELSE 0)) * c.angular_speed

\* C6: in every update tick with dt > 0, overlap ticks included, the bar's
\* angular velocity is set from the current intents and the bar's angle
\* advances by that angular velocity times dt.
C6_BarUpdatedEveryTick ==
    (op = "tick" /\ last.dt > 0 /\ ~crashed)
        => /\ Bar.change_angle = IntendedSpin(BarBefore, last.keys)
           /\ Bar.angle = BarBefore.angle
                            + TimesDt(IntendedSpin(BarBefore, last.keys), last.dt)

\* ------------------------------------------------------------------------
\* C7: in every update tick with dt > 0, the ball's angle advances by its
\* angular velocity times dt, on freely integrated ticks and on ticks where a
\* collision with the bar is resolved.
C7_BallAngleAdvancesEveryTick ==
    (op = "tick" /\ last.dt > 0 /\ ~crashed)
        => Ball.angle = BallBefore.angle
                          + Displacement(BallBefore.change_angle, last.dt)

\* ------------------------------------------------------------------------
\* the ball at the spawn point with the default velocity, the bar at its
\* resting position with angle zero, no intent held
ResetPlacement ==
    /\ Ball.x = SpawnX
    /\ Ball.y = SpawnY
    /\ Ball.velocity_x = OBJECT_INITIAL_SPEED_X * VU
    /\ Ball.velocity_y = 0
    /\ Bar.x = (WIDTH \div 2) * PX
    /\ Bar.y = BAR_POSITION_Y * PX
    /\ Bar.angle = 0
    /\ keys = {}

IsBounceOf(vy, V) == Abs(vy * TENTHS + OBJECT_ELASTICITY * V) <= TENTHS \div 2

\* the floor branch ran with the vertical velocity before contact negative
FloorContact == Integrated /\ IntegrateEvent.floor /\ IntegrateEvent.vy_in < 0

\* C9 as stated: whenever the floor branch runs with vertical velocity V < 0
\* before contact, the vertical velocity at the end of the call is
\* -OBJECT_ELASTICITY * V, also when the wall branch runs in the same call.
C9_FloorBounceAlways ==
    FloorContact => IsBounceOf(Ball.velocity_y, IntegrateEvent.vy_in)

\* C9: whenever the floor branch runs with vertical velocity V < 0 before
\* contact and the wall branch does not run, the vertical velocity at the end
\* of the call is -OBJECT_ELASTICITY * V; when the wall branch runs too, it is
\* that value after the wall friction.
C9_FloorBounceThenWall ==
    FloorContact
        => IF IntegrateEvent.wall
           THEN /\ IsBounceOf(IntegrateEvent.vy_floor, IntegrateEvent.vy_in)
                /\ Ball.velocity_y = WallFriction(IntegrateEvent.vy_floor, last.dt)
           ELSE IsBounceOf(Ball.velocity_y, IntegrateEvent.vy_in)

\* a floor bounce of a falling ball away from the walls
C9_FloorBounceReached ==
    FloorContact /\ ~IntegrateEvent.wall /\ last.dt > 0 /\ Ball.velocity_y > 0

\* ------------------------------------------------------------------------
\* v' = v + a * dt on both axes
VelocityAdvanced ==
    /\ Ball.velocity_x = BallBefore.velocity_x
                           + TimesDt(BallBefore.acceleration_x, last.dt)
    /\ Ball.velocity_y = BallBefore.velocity_y
                           + TimesDt(BallBefore.acceleration_y, last.dt)

\* p + v' * dt for the velocity the ball has now
AdvancedX == BallBefore.x + Displacement(Ball.velocity_x, last.dt)

AdvancedY == BallBefore.y + Displacement(Ball.velocity_y, last.dt)

\* the highest centre the playfield allows
Ceiling == world_height - Ball.height \div 2

\* update_physics ran and neither the floor nor the wall branch did
FreeFlight == Integrated /\ ~IntegrateEvent.floor /\ ~IntegrateEvent.wall

\* the free-fall scenario: from (480, 300) with velocity (0, -200), dt = 0.1
Scenario ==
    /\ FreeFlight
    /\ last.dt = 1
    /\ BallBefore.x = 480 * PX
    /\ BallBefore.y = 300 * PX
    /\ BallBefore.velocity_x = 0
    /\ BallBefore.velocity_y = -200 * VU

\* C10 as stated: in a tick with no floor, wall or bar contact v' = v + a*dt
\* and p' = p + v'*dt on both axes; from (480, 300) with velocity (0, -200)
\* and dt = 0.1 the result is vy = -298 and y = 270.2.
C10_SemiImplicitEuler ==
    /\ FreeFlight => (VelocityAdvanced /\ Ball.x = AdvancedX /\ Ball.y = AdvancedY)
    /\ Scenario => (Ball.velocity_y = -298 * VU /\ Ball.y = 27020)

\* C10: in a tick with no floor, wall or bar contact v' = v + a*dt and
\* x' = x + vx'*dt, and y' = y + vy'*dt unless that is above height - radius,
\* in which case y' = height - radius; from (480, 300) with velocity (0, -200)
\* and dt = 0.1 the result is vy = -298 and y = 270.2.
C10_SemiImplicitEulerBelowCeiling ==
    /\ FreeFlight => /\ VelocityAdvanced
                     /\ Ball.x = AdvancedX
                     /\ Ball.y = Min(AdvancedY, Ceiling)
    /\ Scenario => (Ball.velocity_y = -298 * VU /\ Ball.y = 27020)

\* the free-fall scenario after its tick
C10_ScenarioReached == Scenario /\ Ball.y < BallBefore.y

\* ------------------------------------------------------------------------
\* the calls of update_physics and handle_collision on physics object i in
\* the most recent update
Mutations(i) ==
    { n \in DOMAIN last.events :
        /\ last.events[n].obj = i
        /\ last.events[n].kind \in {"integrate", "collide"} }

\* C11: in each update tick, for any number of registered player controllers,
\* each physics object is mutated by exactly one of update_physics and
\* handle_collision: never by both, never by update_physics twice.
C11_OneMutationPerTick ==
    (op = "tick" /\ ~crashed)
        => \A i \in DOMAIN objs : Cardinality(Mutations(i)) = 1

\* ------------------------------------------------------------------------
\* C12: over any sequence of key-press and key-release events in the host
\* App, the held-intent set keys is empty in every state where current_state
\* is not SIMULATION_STATE.
C12_NoKeysOutsideSimulation == current_state # SIMULATION_STATE => keys = {}

\* ESC pressed in the simulation with keys held: the menu, the keys cleared
C12_EscWithKeysHeld ==
    /\ op = "on_key_press"
    /\ current_state = MENU_STATE
    /\ last.keys # {}

\* ------------------------------------------------------------------------
\* C13: update never reads collision_contact before it has been assigned:
\* from a freshly constructed engine, for every initial placement of ball and
\* bar, every update tick completes without an error.
C13_NoErrorInUpdate == ~crashed

\* ------------------------------------------------------------------------
\* C14: whenever the wall branch of update_physics runs with dt > 0, its
\* friction adjustment neither increases |velocity_y| nor changes the sign of
\* velocity_y, for upward and for downward motion.
C14_WallFrictionMonotone ==
    (Integrated /\ IntegrateEvent.wall /\ last.dt > 0)
        => /\ Abs(Ball.velocity_y) <= Abs(IntegrateEvent.vy_floor)
           /\ Ball.velocity_y * IntegrateEvent.vy_floor >= 0

====
